---------------------------- MODULE Spec2Model ----------------------------
(***************************************************************************)
(* A model of two parts of tuqtng:                                         *)
(*   - xpipeline.Offset (src/xpipeline/offset.go): the operator's Run      *)
(*     loop between a source operator and a downstream consumer, all       *)
(*     handoffs being rendezvous on unbuffered channels;                   *)
(*   - simple.SimplePlanner (src/unnamed/part_000) with the index          *)
(*     usability analysis of src/planner/simple/index.go: the planning     *)
(*     goroutine, its two channels and the caller draining them.           *)
(* Each part has its own specification; the variables of the other part    *)
(* keep their initial value. A third specification calls the functions of  *)
(* the index analysis, and the parser's Parse as its tests                  *)
(* (src/parser/goyacc/unql_parser_test.go) and grammar describe it, one    *)
(* at a time on arguments drawn from bounded sets.                         *)
(***************************************************************************)
EXTENDS Integers, Sequences, FiniteSets, TLC

\* ------------------------------------------------------------------ bounds
MaxItems == 3
MaxOffset == 3
MaxSupport == 2
MaxOver == 1
MaxIndexes == 2
MaxKey == 4
MaxRanges == 2
MaxFold == 3
MaxExprs == 2
MaxClauses == 6

\* ------------------------------------------------------------ value spaces
Nil == "nil"
Items == {"a", "b"}
Errors == {"E1", "E2"}
Notes == {"note"}
SupportMessages == Errors \cup Notes

RECURSIVE SeqsUpTo(_, _)
SeqsUpTo(S, n) ==
  IF n = 0 THEN {<<>>}
  ELSE LET shorter == SeqsUpTo(S, n - 1)
       IN  shorter \cup {Append(s, x) : s \in {t \in shorter : Len(t) = n - 1}, x \in S}

VARIABLES
  \* ---- xpipeline.Offset
  offset,          \* this.Offset: the configured skip count
  count,           \* this.count
  opc,             \* where Run is
  item,            \* the item Run holds between its receive and its send
  obj,             \* the support message Run holds between receive and send
  itemCloses,      \* how many times this.itemChannel was closed
  supportCloses,   \* how many times this.supportChannel was closed
  \* ---- the source operator (this.Source), environment
  srcStarted,      \* go this.Source.Run() has happened
  srcItems,        \* the items the source has to send, in order
  srcPos,          \* how many of them Offset has received
  srcTry,          \* the send the source is blocked in: none, item, support
  srcMsg,          \* the support message of a pending support send
  srcSupSent,      \* support messages handed over so far
  srcItemOpen,     \* the source's item channel is not closed
  srcSupportOpen,  \* the source's support channel is not closed
  srcCloseAt,      \* srcPos when the source first closed a channel, -1 before
  errGot,          \* the Error Run received from the source, Nil before
  errAt,           \* items forwarded when Run received it, -1 before
  \* ---- the downstream consumer, environment
  outItems,        \* items received from Offset's item channel
  outSupport,      \* messages received from Offset's support channel
  \* ---- simple.SimplePlanner and the goroutine of one Plan call
  site,            \* this.site: the catalog
  defaultPool,     \* this.defaultPool
  stmt,            \* the statement given to Plan
  ppc,             \* where the planning goroutine is
  from,            \* buildSelectStatementPlans: from
  poolName,        \* poolName
  pool,            \* pool, Nil before the lookup and when it failed
  bucket,          \* bucket, Nil before the lookup and when it failed
  indexes,         \* indexes, empty before bucket.Indexes() and when it failed
  err,             \* err of bucket.Indexes()
  ix,              \* how many indexes the first loop has visited
  planHeads,       \* planHeads
  planIx,          \* how many plan heads the second loop has emitted
  sending,         \* the plan or error of the send the goroutine is blocked in
  panicking,       \* the goroutine is unwinding from a nil dereference
  pcCloses,        \* how many times the plan channel was closed
  ecCloses,        \* how many times the error channel was closed
  \* ---- the caller of Plan, environment
  plansOut,        \* plans received from the plan channel
  errsOut,         \* errors received from the error channel
  seenPcClosed,    \* the caller has seen the plan channel closed
  seenEcClosed,    \* the caller has seen the error channel closed
  \* ---- one call of a function of the index analysis or of the parser
  fn,              \* the function called
  args,            \* its arguments
  ret              \* what it returned, NotReturned before it returns

ovars == <<offset, count, opc, item, obj, itemCloses, supportCloses,
           srcStarted, srcItems, srcPos, srcTry, srcMsg, srcSupSent,
           srcItemOpen, srcSupportOpen, srcCloseAt, errGot, errAt,
           outItems, outSupport>>

pvars == <<site, defaultPool, stmt, ppc, from, poolName, pool, bucket, indexes, err, ix,
           planHeads, planIx, sending, panicking, pcCloses, ecCloses,
           plansOut, errsOut, seenPcClosed, seenEcClosed>>

avars == <<fn, args, ret>>

vars == <<ovars, pvars, avars>>

\* ============================================================ Offset
IsError(m) == m \in Errors

\* NewOffset(offset): count has its zero value, both channels are open.
NewOffset(k) ==
  /\ offset = k
  /\ count = 0
  /\ opc = "new"
  /\ item = Nil
  /\ obj = Nil
  /\ itemCloses = 0
  /\ supportCloses = 0

SourceInit ==
  /\ srcStarted = FALSE
  /\ srcItems \in SeqsUpTo(Items, MaxItems)
  /\ srcPos = 0
  /\ srcTry = "none"
  /\ srcMsg = Nil
  /\ srcSupSent = 0
  /\ srcItemOpen = TRUE
  /\ srcSupportOpen = TRUE
  /\ srcCloseAt = -1
  /\ errGot = Nil
  /\ errAt = -1

DownstreamInit ==
  /\ outItems = <<>>
  /\ outSupport = <<>>


\* processItem without its send: the new count, and whether the item goes on.
processItem_OffByOne(c, off) ==
  [count |-> c + 1, forward |-> ~(c + 1 < off)]

processItem(c, off) ==
  [count |-> c + 1, forward |-> ~(c + 1 <= off)]

\* Where Run goes once its send of a support message has been taken.
AfterSupportSend_NoReturn(m) == "select"

AfterSupportSend(m) == IF IsError(m) THEN "closeSupport" ELSE "select"

\* Run, lines 44-51: reset the counter, start the source, enter the loop.
Run_Start ==
  /\ opc = "new"
  /\ count' = 0
  /\ srcStarted' = TRUE
  /\ opc' = "select"
  /\ UNCHANGED <<offset, item, obj, itemCloses, supportCloses, srcItems, srcPos,
                 srcTry, srcMsg, srcSupSent, srcItemOpen, srcSupportOpen,
                 srcCloseAt, errGot, errAt, outItems, outSupport>>
  /\ UNCHANGED <<pvars, avars>>

\* The receive of an item that does not wait for a pending send of an item
\* to be taken.
Run_RecvItem_WhileSending ==
  /\ opc \in {"select", "sendItem"}
  /\ srcTry = "item"
  /\ LET it == srcItems[srcPos + 1]
         r == processItem(count, offset)
     IN  /\ item' = it
         /\ count' = r.count
         /\ opc' = IF r.forward THEN "sendItem" ELSE "select"
  /\ srcPos' = srcPos + 1
  /\ srcTry' = "none"
  /\ UNCHANGED <<offset, obj, itemCloses, supportCloses, srcStarted, srcItems,
                 srcMsg, srcSupSent, srcItemOpen, srcSupportOpen, srcCloseAt,
                 errGot, errAt, outItems, outSupport>>
  /\ UNCHANGED <<pvars, avars>>

\* case item, ok = <-sourceItemChannel with ok: the handoff of the source's
\* pending item, then processItem up to its send.
Run_RecvItem ==
  /\ opc = "select"
  /\ srcTry = "item"
  /\ LET it == srcItems[srcPos + 1]
         r == processItem(count, offset)
     IN  /\ item' = it
         /\ count' = r.count
         /\ opc' = IF r.forward THEN "sendItem" ELSE "select"
  /\ srcPos' = srcPos + 1
  /\ srcTry' = "none"
  /\ UNCHANGED <<offset, obj, itemCloses, supportCloses, srcStarted, srcItems,
                 srcMsg, srcSupSent, srcItemOpen, srcSupportOpen, srcCloseAt,
                 errGot, errAt, outItems, outSupport>>
  /\ UNCHANGED <<pvars, avars>>

\* case item, ok = <-sourceItemChannel with !ok: the loop ends, Run returns.
Run_RecvItemClosed ==
  /\ opc = "select"
  /\ ~srcItemOpen
  /\ opc' = "closeSupport"
  /\ UNCHANGED <<offset, count, item, obj, itemCloses, supportCloses, srcStarted,
                 srcItems, srcPos, srcTry, srcMsg, srcSupSent, srcItemOpen,
                 srcSupportOpen, srcCloseAt, errGot, errAt, outItems, outSupport>>
  /\ UNCHANGED <<pvars, avars>>

\* case obj, ok = <-supportChannel with ok: Run goes to send obj on.
Run_RecvSupport ==
  /\ opc = "select"
  /\ srcTry = "support"
  /\ obj' = srcMsg
  /\ opc' = "sendSupport"
  /\ srcTry' = "none"
  /\ srcMsg' = Nil
  /\ srcSupSent' = srcSupSent + 1
  /\ errGot' = IF IsError(srcMsg) THEN srcMsg ELSE errGot
  /\ errAt' = IF IsError(srcMsg) THEN Len(outItems) ELSE errAt
  /\ UNCHANGED <<offset, count, item, itemCloses, supportCloses, srcStarted,
                 srcItems, srcPos, srcItemOpen, srcSupportOpen, srcCloseAt,
                 outItems, outSupport>>
  /\ UNCHANGED <<pvars, avars>>

\* The receive that finds the support channel closed ending the loop only
\* once the item channel is closed as well.
Run_RecvSupportClosed_WaitsForItems ==
  /\ opc = "select"
  /\ ~srcSupportOpen /\ ~srcItemOpen
  /\ opc' = "closeSupport"
  /\ UNCHANGED <<offset, count, item, obj, itemCloses, supportCloses, srcStarted,
                 srcItems, srcPos, srcTry, srcMsg, srcSupSent, srcItemOpen,
                 srcSupportOpen, srcCloseAt, errGot, errAt, outItems, outSupport>>
  /\ UNCHANGED <<pvars, avars>>

\* case obj, ok = <-supportChannel with !ok: the loop ends, Run returns.
Run_RecvSupportClosed ==
  /\ opc = "select"
  /\ ~srcSupportOpen
  /\ opc' = "closeSupport"
  /\ UNCHANGED <<offset, count, item, obj, itemCloses, supportCloses, srcStarted,
                 srcItems, srcPos, srcTry, srcMsg, srcSupSent, srcItemOpen,
                 srcSupportOpen, srcCloseAt, errGot, errAt, outItems, outSupport>>
  /\ UNCHANGED <<pvars, avars>>

\* this.itemChannel <- item completes: the downstream takes the item.
Run_SendItem ==
  /\ opc = "sendItem"
  /\ outItems' = Append(outItems, item)
  /\ item' = Nil
  /\ opc' = "select"
  /\ UNCHANGED <<offset, count, obj, itemCloses, supportCloses, srcStarted,
                 srcItems, srcPos, srcTry, srcMsg, srcSupSent, srcItemOpen,
                 srcSupportOpen, srcCloseAt, errGot, errAt, outSupport>>
  /\ UNCHANGED <<pvars, avars>>

\* The send of a support message after which the loop goes on whatever the
\* message.
Run_SendSupport_LoopsOn ==
  /\ opc = "sendSupport"
  /\ outSupport' = Append(outSupport, obj)
  /\ obj' = Nil
  /\ opc' = "select"
  /\ UNCHANGED <<offset, count, item, itemCloses, supportCloses, srcStarted,
                 srcItems, srcPos, srcTry, srcMsg, srcSupSent, srcItemOpen,
                 srcSupportOpen, srcCloseAt, errGot, errAt, outItems>>
  /\ UNCHANGED <<pvars, avars>>

\* this.supportChannel <- obj completes: the downstream takes the message;
\* after an Error Run returns, after anything else the loop goes on.
Run_SendSupport ==
  /\ opc = "sendSupport"
  /\ outSupport' = Append(outSupport, obj)
  /\ obj' = Nil
  /\ opc' = AfterSupportSend(obj)
  /\ UNCHANGED <<offset, count, item, itemCloses, supportCloses, srcStarted,
                 srcItems, srcPos, srcTry, srcMsg, srcSupSent, srcItemOpen,
                 srcSupportOpen, srcCloseAt, errGot, errAt, outItems>>
  /\ UNCHANGED <<pvars, avars>>

\* defer close(this.supportChannel): the later defer runs first.
Run_CloseSupport ==
  /\ opc = "closeSupport"
  /\ supportCloses' = supportCloses + 1
  /\ opc' = "closeItem"
  /\ UNCHANGED <<offset, count, item, obj, itemCloses, srcStarted, srcItems,
                 srcPos, srcTry, srcMsg, srcSupSent, srcItemOpen, srcSupportOpen,
                 srcCloseAt, errGot, errAt, outItems, outSupport>>
  /\ UNCHANGED <<pvars, avars>>

\* defer close(this.itemChannel).
Run_CloseItem_Missing ==
  /\ opc = "closeItem"
  /\ opc' = "done"
  /\ UNCHANGED <<offset, count, item, obj, itemCloses, supportCloses, srcStarted,
                 srcItems, srcPos, srcTry, srcMsg, srcSupSent, srcItemOpen,
                 srcSupportOpen, srcCloseAt, errGot, errAt, outItems, outSupport>>
  /\ UNCHANGED <<pvars, avars>>

Run_CloseItem ==
  /\ opc = "closeItem"
  /\ itemCloses' = itemCloses + 1
  /\ opc' = "done"
  /\ UNCHANGED <<offset, count, item, obj, supportCloses, srcStarted, srcItems,
                 srcPos, srcTry, srcMsg, srcSupSent, srcItemOpen, srcSupportOpen,
                 srcCloseAt, errGot, errAt, outItems, outSupport>>
  /\ UNCHANGED <<pvars, avars>>

\* ---- the source: one goroutine that sends its items in order, may send
\* support messages between them, and closes each channel at most once.
Source_OfferItem ==
  /\ srcStarted /\ srcTry = "none"
  /\ srcItemOpen
  /\ srcPos < Len(srcItems)
  /\ srcTry' = "item"
  /\ UNCHANGED <<offset, count, opc, item, obj, itemCloses, supportCloses,
                 srcStarted, srcItems, srcPos, srcMsg, srcSupSent, srcItemOpen,
                 srcSupportOpen, srcCloseAt, errGot, errAt, outItems, outSupport>>
  /\ UNCHANGED <<pvars, avars>>

Source_OfferSupport ==
  /\ srcStarted /\ srcTry = "none"
  /\ srcSupportOpen
  /\ srcSupSent < MaxSupport
  /\ \E m \in SupportMessages : srcMsg' = m
  /\ srcTry' = "support"
  /\ UNCHANGED <<offset, count, opc, item, obj, itemCloses, supportCloses,
                 srcStarted, srcItems, srcPos, srcSupSent, srcItemOpen,
                 srcSupportOpen, srcCloseAt, errGot, errAt, outItems, outSupport>>
  /\ UNCHANGED <<pvars, avars>>

Source_CloseItem ==
  /\ srcStarted /\ srcTry = "none"
  /\ srcItemOpen
  /\ srcItemOpen' = FALSE
  /\ srcCloseAt' = IF srcCloseAt = -1 THEN srcPos ELSE srcCloseAt
  /\ UNCHANGED <<offset, count, opc, item, obj, itemCloses, supportCloses,
                 srcStarted, srcItems, srcPos, srcTry, srcMsg, srcSupSent,
                 srcSupportOpen, errGot, errAt, outItems, outSupport>>
  /\ UNCHANGED <<pvars, avars>>

Source_CloseSupport ==
  /\ srcStarted /\ srcTry = "none"
  /\ srcSupportOpen
  /\ srcSupportOpen' = FALSE
  /\ srcCloseAt' = IF srcCloseAt = -1 THEN srcPos ELSE srcCloseAt
  /\ UNCHANGED <<offset, count, opc, item, obj, itemCloses, supportCloses,
                 srcStarted, srcItems, srcPos, srcTry, srcMsg, srcSupSent,
                 srcItemOpen, errGot, errAt, outItems, outSupport>>
  /\ UNCHANGED <<pvars, avars>>

OffsetNext ==
  \/ Run_Start
  \/ Run_RecvItem
  \/ Run_RecvItemClosed
  \/ Run_RecvSupport
  \/ Run_RecvSupportClosed
  \/ Run_SendItem
  \/ Run_SendSupport
  \/ Run_CloseSupport
  \/ Run_CloseItem
  \/ Source_OfferItem
  \/ Source_OfferSupport
  \/ Source_CloseItem
  \/ Source_CloseSupport



\* ============================================================ index analysis
Min(a, b) == IF a <= b THEN a ELSE b

Max(a, b) == IF a >= b THEN a ELSE b

NoOverlap == [none |-> TRUE]

\* plan.ScanRange.Overlap: the range spanning both when they overlap,
\* NoOverlap otherwise.
Overlap(a, b) ==
  IF a.low <= b.high /\ b.low <= a.high
  THEN [low |-> Min(a.low, b.low), high |-> Max(a.high, b.high)]
  ELSE NoOverlap

\* The loop of MergeRanges merging into every entry that overlaps.
RECURSIVE MergeRangesLoop_MergeEvery(_, _, _, _, _)
MergeRangesLoop_MergeEvery(origr, newr, i, rv, merged) ==
  IF i > Len(origr)
  THEN IF ~merged THEN Append(rv, newr) ELSE rv
  ELSE LET orig == origr[i]
           mergedRange == Overlap(orig, newr)
       IN  IF mergedRange # NoOverlap
           THEN MergeRangesLoop_MergeEvery(origr, newr, i + 1, Append(rv, mergedRange), TRUE)
           ELSE MergeRangesLoop_MergeEvery(origr, newr, i + 1, Append(rv, orig), merged)

\* The loop of MergeRanges from entry i on, with rv and merged as they stand.
RECURSIVE MergeRangesLoop(_, _, _, _, _)
MergeRangesLoop(origr, newr, i, rv, merged) ==
  IF i > Len(origr)
  THEN IF ~merged THEN Append(rv, newr) ELSE rv
  ELSE LET orig == origr[i]
           mergedRange == Overlap(orig, newr)
       IN  IF ~merged /\ mergedRange # NoOverlap
           THEN MergeRangesLoop(origr, newr, i + 1, Append(rv, mergedRange), TRUE)
           ELSE MergeRangesLoop(origr, newr, i + 1, Append(rv, orig), merged)

MergeRanges(origr, newr) == MergeRangesLoop(origr, newr, 1, <<>>, FALSE)

\* ast.ExpressionFormalNotationConverter on one key component: the component
\* qualified by the bucket, or an error for a component it cannot resolve.
FormalNotation(kp, bucketName) ==
  IF kp = "bad" THEN [err |-> TRUE, expr |-> <<>>]
  ELSE [err |-> FALSE, expr |-> <<bucketName, kp>>]

RECURSIVE IndexKeyLoop(_, _, _, _)
IndexKeyLoop(key, bucketName, i, fkey) ==
  IF i > Len(key) THEN [err |-> FALSE, key |-> fkey]
  ELSE LET nkey == FormalNotation(key[i], bucketName)
       IN  IF nkey.err THEN [err |-> TRUE, key |-> <<>>]
           ELSE IndexKeyLoop(key, bucketName, i + 1, Append(fkey, nkey.expr))

IndexKeyInFormalNotation(key, bucketName) == IndexKeyLoop(key, bucketName, 1, <<>>)

\* ExpressionSargable bound to one key expression: a comparison of that key
\* expression with constants is sargable and gives its range.
IsSargable(keyExpr, expr) == expr.op = "cmp" /\ expr.path = keyExpr

ScanRanges(expr) == <<[low |-> expr.low, high |-> expr.high]>>

\* Merging the ranges of one sargable operand into rranges, in order.
RECURSIVE MergeAll(_, _, _)
MergeAll(rranges, rs, j) ==
  IF j > Len(rs) THEN rranges
  ELSE MergeAll(MergeRanges(rranges, rs[j]), rs, j + 1)

\* The loop over the operands of a top-level AND that reports the index
\* usable only when every operand is sargable.
RECURSIVE AndOperandsLoop_AllSargable(_, _, _, _, _)
AndOperandsLoop_AllSargable(keyExpr, operands, i, found, rranges) ==
  IF i > Len(operands) THEN [found |-> found, ranges |-> rranges]
  ELSE IF IsSargable(keyExpr, operands[i])
       THEN AndOperandsLoop_AllSargable(keyExpr, operands, i + 1, i = 1 \/ found,
                                        MergeAll(rranges, ScanRanges(operands[i]), 1))
       ELSE AndOperandsLoop_AllSargable(keyExpr, operands, i + 1, FALSE, rranges)

\* The loop over the operands of a top-level AND.
RECURSIVE AndOperandsLoop(_, _, _, _, _)
AndOperandsLoop(keyExpr, operands, i, found, rranges) ==
  IF i > Len(operands) THEN [found |-> found, ranges |-> rranges]
  ELSE IF IsSargable(keyExpr, operands[i])
       THEN AndOperandsLoop(keyExpr, operands, i + 1, TRUE,
                            MergeAll(rranges, ScanRanges(operands[i]), 1))
       ELSE AndOperandsLoop(keyExpr, operands, i + 1, found, rranges)

Unusable == [possible |-> FALSE, ranges |-> <<>>, err |-> FALSE]

Failed == [possible |-> FALSE, ranges |-> <<>>, err |-> TRUE]

\* A where clause is given by what NNF and CNF conversion make of it:
\* where.conv says whether one of them fails, where.cnf is the result.
CanIUseThisIndexForThisWhereClause(index, where, bucketName) ==
  LET indexKeyFormal == IndexKeyInFormalNotation(index.key, bucketName)
  IN  IF indexKeyFormal.err THEN Failed
      ELSE IF where.conv = "nnfErr" THEN Failed
      ELSE IF where.conv = "cnfErr" THEN Failed
      ELSE IF where.cnf.op = "and"
           THEN LET r == AndOperandsLoop(indexKeyFormal.key[1], where.cnf.operands,
                                         1, FALSE, <<>>)
                IN  IF r.found
                    THEN [possible |-> TRUE, ranges |-> r.ranges, err |-> FALSE]
                    ELSE Unusable
           ELSE IF IsSargable(indexKeyFormal.key[1], where.cnf)
                THEN [possible |-> TRUE, ranges |-> ScanRanges(where.cnf), err |-> FALSE]
                ELSE Unusable

\* ============================================================ planner inputs
SystemPool == "system"
DualBucket == "dual"

NilFrom == [nil |-> TRUE]

Froms ==
  {NilFrom} \cup {[Pool |-> p, Bucket |-> "b", Over |-> o] : p \in {"", "p"}, o \in 0..MaxOver}

Cmp(field, lo, hi) == [op |-> "cmp", path |-> <<"b", field>>, low |-> lo, high |-> hi]
Opaque == [op |-> "opaque"]
And(operands) == [op |-> "and", operands |-> operands]
Where(conv, cnf) == [conv |-> conv, cnf |-> cnf]

NilWhere == [nil |-> TRUE]

Wheres ==
  {NilWhere,
   Where("ok", Cmp("x", 1, 2)),
   Where("ok", Opaque),
   Where("ok", And(<<Cmp("x", 1, 2), Cmp("y", 5, 6)>>)),
   Where("ok", And(<<Cmp("x", 1, 2), Cmp("x", 2, 3)>>)),
   Where("ok", And(<<Cmp("y", 5, 6), Opaque>>)),
   Where("nnfErr", Opaque),
   Where("cnfErr", Opaque)}

PrimaryIndex == [type |-> "primary", key |-> <<>>]
RangeIndex(key) == [type |-> "range", key |-> key]
OtherIndex == [type |-> "other", key |-> <<>>]

IndexKinds ==
  {PrimaryIndex, RangeIndex(<<"x">>), RangeIndex(<<"y">>), RangeIndex(<<"bad">>),
   OtherIndex}

\* The catalog: the pools and buckets that exist, and what the enumeration
\* of a bucket's indexes gives.
Pools == {"default", "p", SystemPool}
Buckets == {"b", DualBucket}

Site(ps, bs, indexesErr, ixs) ==
  [pools |-> ps, buckets |-> bs, indexesErr |-> indexesErr, indexes |-> ixs]

\* catalog.Site.PoolByName, Pool.BucketByName, Bucket.Indexes; a pool and a
\* bucket are known by their names.
PoolByName(st, name) ==
  IF name \in st.pools THEN [err |-> FALSE, pool |-> name]
  ELSE [err |-> TRUE, pool |-> Nil]

BucketByName(st, p, name) ==
  IF name \in st.buckets THEN [err |-> FALSE, bucket |-> name]
  ELSE [err |-> TRUE, bucket |-> Nil]

Indexes(st, b) ==
  IF st.indexesErr THEN [err |-> TRUE, indexes |-> <<>>]
  ELSE [err |-> FALSE, indexes |-> st.indexes]

\* Every catalog: any index list, a failing enumeration, missing pools, a
\* missing bucket.
Sites ==
  {Site(Pools, Buckets, FALSE, l) : l \in SeqsUpTo(IndexKinds, MaxIndexes)}
  \cup {Site(Pools, Buckets, TRUE, <<>>)}
  \cup {Site(ps, Buckets, FALSE, <<PrimaryIndex>>) : ps \in {{}, {"default"}}}
  \cup {Site(Pools, {}, FALSE, <<PrimaryIndex>>)}

\* Two catalogs for the statements that vary every clause.
FewSites ==
  {Site(Pools, Buckets, FALSE, <<PrimaryIndex>>),
   Site(Pools, Buckets, FALSE, <<RangeIndex(<<"x">>), PrimaryIndex>>)}

\* Select statements with every combination of the clauses that only decide
\* the stages of a plan, over a few where clauses.
SelectStatements ==
  [variant : {"Select"}, From : Froms,
   Where : {NilWhere, Where("ok", Cmp("x", 1, 2)),
            Where("ok", And(<<Cmp("x", 1, 2), Cmp("x", 2, 3)>>))},
   GroupBy : BOOLEAN, Having : BOOLEAN, Distinct : BOOLEAN, OrderBy : BOOLEAN,
   Offset : {0, 2}, Limit : {-1, 0, 2}, ExplainOnly : BOOLEAN,
   Pool : {""}, Bucket : {""}]

\* Select statements with every where clause, with none or all of those
\* other clauses.
SelectStatementsAnyWhere ==
  [variant : {"Select"}, From : Froms, Where : Wheres,
   GroupBy : {FALSE}, Having : {FALSE}, Distinct : {FALSE}, OrderBy : {FALSE},
   Offset : {0}, Limit : {-1}, ExplainOnly : {FALSE},
   Pool : {""}, Bucket : {""}]
  \cup
  [variant : {"Select"}, From : Froms, Where : Wheres,
   GroupBy : {TRUE}, Having : {TRUE}, Distinct : {TRUE}, OrderBy : {TRUE},
   Offset : {2}, Limit : {0}, ExplainOnly : {TRUE},
   Pool : {""}, Bucket : {""}]

IndexStatements ==
  [variant : {"CreateIndex", "DropIndex"}, From : {NilFrom}, Where : {NilWhere},
   GroupBy : {FALSE}, Having : {FALSE}, Distinct : {FALSE}, OrderBy : {FALSE},
   Offset : {0}, Limit : {-1}, ExplainOnly : BOOLEAN,
   Pool : {"", "p"}, Bucket : {"b"}]

OtherStatements ==
  [variant : {"Other"}, From : {NilFrom}, Where : {NilWhere},
   GroupBy : {FALSE}, Having : {FALSE}, Distinct : {FALSE}, OrderBy : {FALSE},
   Offset : {0}, Limit : {-1}, ExplainOnly : {FALSE},
   Pool : {""}, Bucket : {""}]


\* ============================================================ planner
PoolDoesNotExist(name) == [kind |-> "PoolDoesNotExist", name |-> name]
BucketDoesNotExist(name) == [kind |-> "BucketDoesNotExist", name |-> name]
NoIndexesFound(name) == [kind |-> "NoIndexesFound", name |-> name]
NoUsableIndexes(name) == [kind |-> "NoUsableIndexes", name |-> name]

NoSend == [none |-> TRUE]
SendPlan(p) == [plan |-> p]
SendErr(e) == [error |-> e]

\* NewSimplePlanner, and the locals of a goroutine that has not run yet.
NewSimplePlanner(st, dp) ==
  /\ site = st
  /\ defaultPool = dp
  /\ ppc = "idle"
  /\ from = NilFrom
  /\ poolName = Nil
  /\ pool = Nil
  /\ bucket = Nil
  /\ indexes = <<>>
  /\ err = Nil
  /\ ix = 0
  /\ planHeads = <<>>
  /\ planIx = 0
  /\ sending = NoSend
  /\ panicking = FALSE
  /\ pcCloses = 0
  /\ ecCloses = 0

CallerInit ==
  /\ plansOut = <<>>
  /\ errsOut = <<>>
  /\ seenPcClosed = FALSE
  /\ seenEcClosed = FALSE

\* Plan: make the two channels, start buildPlans, return.
Plan ==
  /\ ppc = "idle"
  /\ ppc' = "buildPlans"
  /\ UNCHANGED <<site, defaultPool, stmt, from, poolName, pool, bucket, indexes, err, ix,
                 planHeads, planIx, sending, panicking, pcCloses, ecCloses,
                 plansOut, errsOut, seenPcClosed, seenEcClosed>>
  /\ UNCHANGED <<ovars, avars>>

\* buildPlans: the type switch; a statement of no known variant falls through
\* to the return.
buildPlans ==
  /\ ppc = "buildPlans"
  /\ ppc' = CASE stmt.variant = "Select" -> "select.pool"
              [] stmt.variant \in {"CreateIndex", "DropIndex"} -> "index.pool"
              [] OTHER -> "closeEc"
  /\ UNCHANGED <<site, defaultPool, stmt, from, poolName, pool, bucket, indexes, err, ix,
                 planHeads, planIx, sending, panicking, pcCloses, ecCloses,
                 plansOut, errsOut, seenPcClosed, seenEcClosed>>
  /\ UNCHANGED <<ovars, avars>>

\* from := stmt.GetFrom(), :system.dual when nil.
ResolveFrom(s) ==
  IF s.From = NilFrom
  THEN [Pool |-> SystemPool, Bucket |-> DualBucket, Over |-> 0]
  ELSE s.From

\* poolName := from.Pool, the default pool when empty.
ResolvePoolName_AlwaysDefault(f, dp) == dp

ResolvePoolName(f, dp) == IF f.Pool = "" THEN dp ELSE f.Pool

\* buildSelectStatementPlans up to the pool lookup.
Select_PoolByName ==
  /\ ppc = "select.pool"
  /\ from' = ResolveFrom(stmt)
  /\ poolName' = ResolvePoolName(from', defaultPool)
  /\ LET r == PoolByName(site, poolName')
     IN  IF ~r.err
         THEN /\ pool' = r.pool
              /\ ppc' = "select.bucket"
              /\ sending' = sending
         ELSE /\ pool' = Nil
              /\ sending' = SendErr(PoolDoesNotExist(poolName'))
              /\ ppc' = "sendErr"
  /\ UNCHANGED <<site, defaultPool, stmt, bucket, indexes, err, ix, planHeads, planIx,
                 panicking, pcCloses, ecCloses, plansOut, errsOut, seenPcClosed,
                 seenEcClosed>>
  /\ UNCHANGED <<ovars, avars>>

Select_BucketByName ==
  /\ ppc = "select.bucket"
  /\ LET r == BucketByName(site, pool, from.Bucket)
     IN  IF ~r.err
         THEN /\ bucket' = r.bucket
              /\ ppc' = "select.indexes"
              /\ sending' = sending
         ELSE /\ bucket' = Nil
              /\ sending' = SendErr(BucketDoesNotExist(from.Bucket))
              /\ ppc' = "sendErr"
  /\ UNCHANGED <<site, defaultPool, stmt, from, poolName, pool, indexes, err, ix, planHeads,
                 planIx, panicking, pcCloses, ecCloses, plansOut, errsOut,
                 seenPcClosed, seenEcClosed>>
  /\ UNCHANGED <<ovars, avars>>

Select_Indexes ==
  /\ ppc = "select.indexes"
  /\ LET r == Indexes(site, bucket)
     IN  /\ indexes' = r.indexes
         /\ err' = IF r.err THEN "error" ELSE Nil
         /\ IF ~r.err
            THEN /\ ppc' = "select.loop"
                 /\ sending' = sending
            ELSE /\ sending' = SendErr(NoIndexesFound(from.Bucket))
                 /\ ppc' = "sendErr"
  /\ UNCHANGED <<site, defaultPool, stmt, from, poolName, pool, bucket, ix, planHeads,
                 planIx, panicking, pcCloses, ecCloses, plansOut, errsOut,
                 seenPcClosed, seenEcClosed>>
  /\ UNCHANGED <<ovars, avars>>

Scan(p, b, name, ranges) ==
  [op |-> "Scan", pool |-> p, bucket |-> b, index |-> name, ranges |-> ranges]
Fetch(p, b) == [op |-> "Fetch", pool |-> p, bucket |-> b]
DocumentJoin(level) == [op |-> "DocumentJoin", level |-> level]
Filter(what) == [op |-> "Filter", expr |-> what]
Group == [op |-> "Group"]
Projector == [op |-> "Projector"]
EliminateDuplicates == [op |-> "EliminateDuplicates"]
Order == [op |-> "Order"]
OffsetStep(n) == [op |-> "Offset", n |-> n]
Limit(n) == [op |-> "Limit", n |-> n]
Explain == [op |-> "Explain"]
CreateOrDropIndex(variant, p, b) == [op |-> variant, pool |-> p, bucket |-> b]

\* The document joins of the From's Over chain, one per level.
RECURSIVE DocumentJoins(_, _, _)
DocumentJoins(lastStep, level, over) ==
  IF level > over THEN lastStep
  ELSE DocumentJoins(Append(lastStep, DocumentJoin(level)), level + 1, over)

\* What one pass of the first loop decides for the index named name (its
\* place in the enumeration): a nil dereference, a skip, or a plan head. A
\* plan is the sequence of its steps, the scan first.
VisitIndex(s, f, p, b, index, name) ==
  LET head(scan) == DocumentJoins(<<scan, Fetch(p, b)>>, 1, f.Over)
  IN  CASE index.type = "primary" ->
             [outcome |-> "head", head |-> head(Scan(p, b, name, <<>>))]
        [] index.type = "range" ->
             IF s.Where # NilWhere
             THEN IF s.From = NilFrom
                  THEN [outcome |-> "panic", head |-> <<>>]
                  ELSE LET r == CanIUseThisIndexForThisWhereClause(
                                   index, s.Where, s.From.Bucket)
                       IN  IF r.err THEN [outcome |-> "skip", head |-> <<>>]
                           ELSE IF r.possible
                           THEN [outcome |-> "head",
                                 head |-> head(Scan(p, b, name, r.ranges))]
                           ELSE [outcome |-> "skip", head |-> <<>>]
             ELSE [outcome |-> "skip", head |-> <<>>]
        [] OTHER -> [outcome |-> "skip", head |-> <<>>]

\* One pass of the loop over the indexes.
Select_VisitIndex ==
  /\ ppc = "select.loop"
  /\ ix < Len(indexes)
  /\ LET v == VisitIndex(stmt, from, pool, bucket, indexes[ix + 1], ix + 1)
     IN  /\ planHeads' = IF v.outcome = "head" THEN Append(planHeads, v.head)
                         ELSE planHeads
         /\ panicking' = (v.outcome = "panic")
         /\ ppc' = IF v.outcome = "panic" THEN "closeEc" ELSE "select.loop"
  /\ ix' = ix + 1
  /\ UNCHANGED <<site, defaultPool, stmt, from, poolName, pool, bucket, indexes, err, planIx,
                 sending, pcCloses, ecCloses, plansOut, errsOut, seenPcClosed,
                 seenEcClosed>>
  /\ UNCHANGED <<ovars, avars>>

\* After the loop: no plan head is an error.
Select_CheckPlanHeads ==
  /\ ppc = "select.loop"
  /\ ix = Len(indexes)
  /\ IF Len(planHeads) = 0
     THEN /\ sending' = SendErr(NoUsableIndexes(from.Bucket))
          /\ ppc' = "sendErr"
     ELSE /\ sending' = sending
          /\ ppc' = "select.emit"
  /\ UNCHANGED <<site, defaultPool, stmt, from, poolName, pool, bucket, indexes, err, ix,
                 planHeads, planIx, panicking, pcCloses, ecCloses, plansOut,
                 errsOut, seenPcClosed, seenEcClosed>>
  /\ UNCHANGED <<ovars, avars>>

When(cond, lastStep, step) == IF cond THEN Append(lastStep, step) ELSE lastStep

\* The body of the second loop up to its send: the full plan of one head.
FullPlan_LimitPositive(lastStep, s) ==
  LET s1 == When(s.Where # NilWhere, lastStep, Filter("Where"))
      s2 == When(s.GroupBy, s1, Group)
      s3 == When(s.Having, s2, Filter("Having"))
      s4 == Append(s3, Projector)
      s5 == When(s.Distinct, s4, EliminateDuplicates)
      s6 == When(s.OrderBy, s5, Order)
      s7 == When(s.Offset # 0, s6, OffsetStep(s.Offset))
      s8 == When(s.Limit > 0, s7, Limit(s.Limit))
  IN  When(s.ExplainOnly, s8, Explain)

\* The stages of a plan with the filter on the where clause left out over a
\* scan that is restricted to ranges.
FullPlan_NoFilterOverRanges(lastStep, s) ==
  LET s1 == When(s.Where # NilWhere /\ lastStep[1].ranges = <<>>, lastStep,
                 Filter("Where"))
      s2 == When(s.GroupBy, s1, Group)
      s3 == When(s.Having, s2, Filter("Having"))
      s4 == Append(s3, Projector)
      s5 == When(s.Distinct, s4, EliminateDuplicates)
      s6 == When(s.OrderBy, s5, Order)
      s7 == When(s.Offset # 0, s6, OffsetStep(s.Offset))
      s8 == When(s.Limit >= 0, s7, Limit(s.Limit))
  IN  When(s.ExplainOnly, s8, Explain)

FullPlan(lastStep, s) ==
  LET s1 == When(s.Where # NilWhere, lastStep, Filter("Where"))
      s2 == When(s.GroupBy, s1, Group)
      s3 == When(s.Having, s2, Filter("Having"))
      s4 == Append(s3, Projector)
      s5 == When(s.Distinct, s4, EliminateDuplicates)
      s6 == When(s.OrderBy, s5, Order)
      s7 == When(s.Offset # 0, s6, OffsetStep(s.Offset))
      s8 == When(s.Limit >= 0, s7, Limit(s.Limit))
  IN  When(s.ExplainOnly, s8, Explain)

Select_BuildPlan ==
  /\ ppc = "select.emit"
  /\ planIx < Len(planHeads)
  /\ sending' = SendPlan(FullPlan(planHeads[planIx + 1], stmt))
  /\ ppc' = "sendPlan"
  /\ UNCHANGED <<site, defaultPool, stmt, from, poolName, pool, bucket, indexes, err, ix,
                 planHeads, planIx, panicking, pcCloses, ecCloses, plansOut,
                 errsOut, seenPcClosed, seenEcClosed>>
  /\ UNCHANGED <<ovars, avars>>

\* The second loop is over: buildSelectStatementPlans returns.
Select_Return ==
  /\ ppc = "select.emit"
  /\ planIx = Len(planHeads)
  /\ ppc' = "closeEc"
  /\ UNCHANGED <<site, defaultPool, stmt, from, poolName, pool, bucket, indexes, err, ix,
                 planHeads, planIx, sending, panicking, pcCloses, ecCloses,
                 plansOut, errsOut, seenPcClosed, seenEcClosed>>
  /\ UNCHANGED <<ovars, avars>>

\* The pool lookup of the index statements with the error naming the pool
\* that was looked up.
Index_PoolByName_NamesLookedUp ==
  /\ ppc = "index.pool"
  /\ poolName' = IF stmt.Pool = "" THEN defaultPool ELSE stmt.Pool
  /\ LET r == PoolByName(site, poolName')
     IN  IF ~r.err
         THEN /\ pool' = r.pool
              /\ ppc' = "index.bucket"
              /\ sending' = sending
         ELSE /\ pool' = Nil
              /\ sending' = SendErr(PoolDoesNotExist(poolName'))
              /\ ppc' = "sendErr"
  /\ UNCHANGED <<site, defaultPool, stmt, from, bucket, indexes, err, ix, planHeads, planIx,
                 panicking, pcCloses, ecCloses, plansOut, errsOut, seenPcClosed,
                 seenEcClosed>>
  /\ UNCHANGED <<ovars, avars>>

\* buildCreateIndexStatementPlans and buildDropIndexStatementPlans, which
\* differ in the plan element only: the pool lookup. The error names the
\* default pool.
Index_PoolByName ==
  /\ ppc = "index.pool"
  /\ poolName' = IF stmt.Pool = "" THEN defaultPool ELSE stmt.Pool
  /\ LET r == PoolByName(site, poolName')
     IN  IF ~r.err
         THEN /\ pool' = r.pool
              /\ ppc' = "index.bucket"
              /\ sending' = sending
         ELSE /\ pool' = Nil
              /\ sending' = SendErr(PoolDoesNotExist(defaultPool))
              /\ ppc' = "sendErr"
  /\ UNCHANGED <<site, defaultPool, stmt, from, bucket, indexes, err, ix, planHeads, planIx,
                 panicking, pcCloses, ecCloses, plansOut, errsOut, seenPcClosed,
                 seenEcClosed>>
  /\ UNCHANGED <<ovars, avars>>

\* The bucket lookup and, when it succeeds, the plan up to its send.
Index_BucketByName ==
  /\ ppc = "index.bucket"
  /\ LET r == BucketByName(site, pool, stmt.Bucket)
     IN  IF ~r.err
         THEN /\ bucket' = r.bucket
              /\ sending' = SendPlan(When(stmt.ExplainOnly,
                                 <<CreateOrDropIndex(stmt.variant, pool, r.bucket)>>,
                                 Explain))
              /\ ppc' = "sendPlan"
         ELSE /\ bucket' = Nil
              /\ sending' = SendErr(BucketDoesNotExist(stmt.Bucket))
              /\ ppc' = "sendErr"
  /\ UNCHANGED <<site, defaultPool, stmt, from, poolName, pool, indexes, err, ix, planHeads,
                 planIx, panicking, pcCloses, ecCloses, plansOut, errsOut,
                 seenPcClosed, seenEcClosed>>
  /\ UNCHANGED <<ovars, avars>>

\* pc <- plan.Plan{...} completes: the caller takes the plan. A Select goes
\* on with its second loop, the index statements return.
Caller_RecvPlan ==
  /\ ppc = "sendPlan"
  /\ plansOut' = Append(plansOut, sending.plan)
  /\ sending' = NoSend
  /\ planIx' = planIx + 1
  /\ ppc' = IF stmt.variant = "Select" THEN "select.emit" ELSE "closeEc"
  /\ UNCHANGED <<site, defaultPool, stmt, from, poolName, pool, bucket, indexes, err, ix,
                 planHeads, panicking, pcCloses, ecCloses, errsOut, seenPcClosed,
                 seenEcClosed>>
  /\ UNCHANGED <<ovars, avars>>

\* ec <- error completes: the caller takes the error; every such send is
\* followed by a return.
Caller_RecvErr ==
  /\ ppc = "sendErr"
  /\ errsOut' = Append(errsOut, sending.error)
  /\ sending' = NoSend
  /\ ppc' = "closeEc"
  /\ UNCHANGED <<site, defaultPool, stmt, from, poolName, pool, bucket, indexes, err, ix,
                 planHeads, planIx, panicking, pcCloses, ecCloses, plansOut,
                 seenPcClosed, seenEcClosed>>
  /\ UNCHANGED <<ovars, avars>>

\* defer close(ec): the later defer runs first, on return and on panic.
Defer_CloseEc ==
  /\ ppc = "closeEc"
  /\ ecCloses' = ecCloses + 1
  /\ ppc' = "closePc"
  /\ UNCHANGED <<site, defaultPool, stmt, from, poolName, pool, bucket, indexes, err, ix,
                 planHeads, planIx, sending, panicking, pcCloses, plansOut,
                 errsOut, seenPcClosed, seenEcClosed>>
  /\ UNCHANGED <<ovars, avars>>

\* defer close(pc); after it a goroutine that returned is done, one that
\* panicked has unwound.
Defer_ClosePc_Missing ==
  /\ ppc = "closePc"
  /\ ppc' = IF panicking THEN "unwound" ELSE "done"
  /\ UNCHANGED <<site, defaultPool, stmt, from, poolName, pool, bucket, indexes, err, ix,
                 planHeads, planIx, sending, panicking, pcCloses, ecCloses,
                 plansOut, errsOut, seenPcClosed, seenEcClosed>>
  /\ UNCHANGED <<ovars, avars>>

Defer_ClosePc ==
  /\ ppc = "closePc"
  /\ pcCloses' = pcCloses + 1
  /\ ppc' = IF panicking THEN "unwound" ELSE "done"
  /\ UNCHANGED <<site, defaultPool, stmt, from, poolName, pool, bucket, indexes, err, ix,
                 planHeads, planIx, sending, panicking, ecCloses, plansOut,
                 errsOut, seenPcClosed, seenEcClosed>>
  /\ UNCHANGED <<ovars, avars>>

\* A panic nothing recovers ends the process, the caller with it.
Runtime_Crash ==
  /\ ppc = "unwound"
  /\ ppc' = "crashed"
  /\ UNCHANGED <<site, defaultPool, stmt, from, poolName, pool, bucket, indexes, err, ix,
                 planHeads, planIx, sending, panicking, pcCloses, ecCloses,
                 plansOut, errsOut, seenPcClosed, seenEcClosed>>
  /\ UNCHANGED <<ovars, avars>>

\* The caller's receive from a closed channel.
Caller_SeePcClosed ==
  /\ ppc # "crashed"
  /\ pcCloses > 0 /\ ~seenPcClosed
  /\ seenPcClosed' = TRUE
  /\ UNCHANGED <<site, defaultPool, stmt, ppc, from, poolName, pool, bucket, indexes, err, ix,
                 planHeads, planIx, sending, panicking, pcCloses, ecCloses,
                 plansOut, errsOut, seenEcClosed>>
  /\ UNCHANGED <<ovars, avars>>

Caller_SeeEcClosed ==
  /\ ppc # "crashed"
  /\ ecCloses > 0 /\ ~seenEcClosed
  /\ seenEcClosed' = TRUE
  /\ UNCHANGED <<site, defaultPool, stmt, ppc, from, poolName, pool, bucket, indexes, err, ix,
                 planHeads, planIx, sending, panicking, pcCloses, ecCloses,
                 plansOut, errsOut, seenPcClosed>>
  /\ UNCHANGED <<ovars, avars>>

PlannerStep ==
  \/ Plan
  \/ buildPlans
  \/ Select_PoolByName
  \/ Select_BucketByName
  \/ Select_Indexes
  \/ Select_VisitIndex
  \/ Select_CheckPlanHeads
  \/ Select_BuildPlan
  \/ Select_Return
  \/ Index_PoolByName
  \/ Index_BucketByName
  \/ Defer_CloseEc
  \/ Defer_ClosePc
  \/ Runtime_Crash

CallerStep ==
  \/ Caller_RecvPlan
  \/ Caller_RecvErr
  \/ Caller_SeePcClosed
  \/ Caller_SeeEcClosed

PlanNext == PlannerStep \/ CallerStep

\* The Offset part at rest, for the planner's specifications.
OffsetAtRest ==
  /\ NewOffset(0)
  /\ srcStarted = FALSE /\ srcItems = <<>> /\ srcPos = 0 /\ srcTry = "none"
  /\ srcMsg = Nil /\ srcSupSent = 0 /\ srcItemOpen = TRUE /\ srcSupportOpen = TRUE
  /\ srcCloseAt = -1 /\ errGot = Nil /\ errAt = -1
  /\ DownstreamInit

\* The planner part at rest, for the Offset specification.
PlannerAtRest ==
  /\ NewSimplePlanner(Site({}, {}, FALSE, <<>>), "default")
  /\ stmt = [variant |-> "none"]
  /\ CallerInit

\* No function of the analysis is being called.
NotCalled == [none |-> TRUE]

NotReturned == [none |-> TRUE]

AnalysisAtRest == fn = "none" /\ args = NotCalled /\ ret = NotReturned

PlanInit ==
  /\ \/ /\ stmt \in SelectStatementsAnyWhere \cup IndexStatements \cup OtherStatements
        /\ \E st \in Sites : NewSimplePlanner(st, "default")
     \/ /\ stmt \in SelectStatements
        /\ \E st \in FewSites : NewSimplePlanner(st, "default")
  /\ CallerInit
  /\ OffsetAtRest
  /\ AnalysisAtRest

PlanSpec == PlanInit /\ [][PlanNext]_vars

OffsetInit ==
  /\ \E k \in 0..MaxOffset : NewOffset(k)
  /\ SourceInit
  /\ DownstreamInit
  /\ PlannerAtRest
  /\ AnalysisAtRest

OffsetSpec == OffsetInit /\ [][OffsetNext]_vars

\* ============================================================ claims, Offset
IsPrefix(s, t) == Len(s) <= Len(t) /\ SubSeq(t, 1, Len(s)) = s

ErrorsIn(s) == {i \in 1..Len(s) : IsError(s[i])}

\* The source has sent all of its items, only then closed its channels, has
\* closed both, and Run has received no Error from it.
SourceSentAllThenClosed ==
  /\ srcCloseAt = Len(srcItems)
  /\ ~srcItemOpen
  /\ ~srcSupportOpen
  /\ errGot = Nil

\* C1: fed N items by a source that then closes both channels without an
\* Error, Offset with skip count K has, when Run is over, handed the
\* downstream exactly the items K+1..N of the source, in order and unchanged,
\* which are max(0, N-K) items; and at no time anything that is not a prefix
\* of them.
C1_OffsetEmitsTail ==
  /\ IsPrefix(outItems, SubSeq(srcItems, offset + 1, Len(srcItems)))
  /\ (opc = "done" /\ SourceSentAllThenClosed) =>
        /\ outItems = SubSeq(srcItems, offset + 1, Len(srcItems))
        /\ Len(outItems) = Max(0, Len(srcItems) - offset)

C1_Witness ==
  /\ opc = "done" /\ SourceSentAllThenClosed
  /\ Len(srcItems) = 3 /\ offset = 1
  /\ outItems = <<srcItems[2], srcItems[3]>>
  /\ srcItems[2] # srcItems[3]

\* C2: once Run has received an Error, having forwarded M items, the
\* downstream never has more than those M items; Run is sending that Error or
\* has sent it and is returning, never back in its loop; and the downstream
\* gets that Error, once, as the last message of the support channel.
C2_ErrorForwardedThenStop ==
  errGot # Nil =>
    /\ Len(outItems) = errAt
    /\ \/ /\ opc = "sendSupport"
          /\ obj = errGot
          /\ ErrorsIn(outSupport) = {}
       \/ /\ opc \in {"closeSupport", "closeItem", "done"}
          /\ ErrorsIn(outSupport) = {Len(outSupport)}
          /\ outSupport[Len(outSupport)] = errGot

C2_Witness ==
  /\ opc = "done"
  /\ errGot = "E2"
  /\ errAt = 1
  /\ Len(outItems) = 1
  /\ srcPos < Len(srcItems)
  /\ outSupport = <<"note", "E2">>

\* C4: each of Offset's two channels is closed at most once, both are closed
\* once Run is over, whichever way it ended, and Run is in no send on a
\* channel it has closed.
C4_OffsetClosesOnce ==
  /\ itemCloses <= 1 /\ supportCloses <= 1
  /\ opc = "done" => (itemCloses = 1 /\ supportCloses = 1)
  /\ opc \in {"new", "select", "sendItem", "sendSupport"} =>
        (itemCloses = 0 /\ supportCloses = 0)

C4_Witness ==
  /\ opc = "done"
  /\ itemCloses = 1 /\ supportCloses = 1
  /\ errGot # Nil
  /\ srcItemOpen /\ srcSupportOpen

\* ============================================================ claims, planner
PlanningOver == ppc \in {"done", "crashed"}

\* The From the planner is to work with: the statement's, or :system.dual.
FromInUse == IF stmt.From = NilFrom
             THEN [Pool |-> SystemPool, Bucket |-> DualBucket, Over |-> 0]
             ELSE stmt.From

PoolInUse == IF FromInUse.Pool = "" THEN defaultPool ELSE FromInUse.Pool

\* The index key converts to formal notation and the where clause to CNF.
Convertible(index, where) ==
  /\ \A i \in 1..Len(index.key) : index.key[i] # "bad"
  /\ where.conv = "ok"

\* Some conjunct of the where clause, or the clause itself when it is no
\* conjunction, compares the first key component of the index, as the bucket
\* b qualifies it.
SargableAgainst(index, where, b) ==
  /\ Convertible(index, where)
  /\ LET k == <<b, index.key[1]>>
         onKey(e) == e.op = "cmp" /\ e.path = k
     IN  IF where.cnf.op = "and"
         THEN \E i \in 1..Len(where.cnf.operands) : onKey(where.cnf.operands[i])
         ELSE onKey(where.cnf)

UsableIndex(index) ==
  \/ index.type = "primary"
  \/ /\ index.type = "range"
     /\ stmt.Where # NilWhere
     /\ SargableAgainst(index, stmt.Where, FromInUse.Bucket)

\* The statement is a Select whose pool and bucket exist and whose bucket
\* enumerates its indexes.
CatalogResolves ==
  /\ stmt.variant = "Select"
  /\ PoolInUse \in site.pools
  /\ FromInUse.Bucket \in site.buckets
  /\ ~site.indexesErr

\* C3: each of the two channels of a Plan call is closed at most once, both
\* are closed once the planning goroutine is over, whatever the statement
\* and the outcome, and the goroutine is at no send, nor anywhere before its
\* return, with a channel closed.
C3_PlannerClosesOnce ==
  /\ pcCloses <= 1 /\ ecCloses <= 1
  /\ ppc \in {"done", "unwound", "crashed"} => (pcCloses = 1 /\ ecCloses = 1)
  /\ ppc \notin {"closePc", "done", "unwound", "crashed"} =>
        (pcCloses = 0 /\ ecCloses = 0)

C3_Witness ==
  /\ ppc = "done"
  /\ pcCloses = 1 /\ ecCloses = 1
  /\ Len(plansOut) = 2 /\ errsOut = <<>>

\* C5: a Select whose pool lookup failed ends with exactly one
\* pool-not-found error, naming the pool looked up, and no plan; one whose
\* bucket lookup failed ends with exactly one bucket-not-found error, naming
\* the bucket, and no plan.
C5_PoolOrBucketNotFound ==
  (PlanningOver /\ stmt.variant = "Select") =>
     /\ PoolInUse \notin site.pools =>
          (errsOut = <<PoolDoesNotExist(PoolInUse)>> /\ plansOut = <<>>)
     /\ (PoolInUse \in site.pools /\ FromInUse.Bucket \notin site.buckets) =>
          (errsOut = <<BucketDoesNotExist(FromInUse.Bucket)>> /\ plansOut = <<>>)

C5_Witness ==
  /\ ppc = "done" /\ stmt.variant = "Select"
  /\ stmt.From # NilFrom
  /\ stmt.From.Pool = "p"
  /\ site.pools = {"default"}
  /\ errsOut = <<PoolDoesNotExist("p")>>
  /\ plansOut = <<>>

\* C6: a Select whose pool, bucket and indexes were found and none of whose
\* indexes is usable (none primary, every range index without a where clause
\* sargable against it) ends with exactly one no-usable-indexes error and no
\* plan.
C6_NoUsableIndexes ==
  (PlanningOver /\ CatalogResolves
     /\ \A i \in 1..Len(site.indexes) : ~UsableIndex(site.indexes[i])) =>
        (errsOut = <<NoUsableIndexes(FromInUse.Bucket)>> /\ plansOut = <<>>)

\* The scans of one plan per usable index, in enumeration order.
RECURSIVE ExpectedScans(_)
ExpectedScans(n) ==
  IF n = 0 THEN <<>>
  ELSE LET index == site.indexes[n]
           ranges == IF index.type = "primary" THEN <<>>
                     ELSE CanIUseThisIndexForThisWhereClause(
                            index, stmt.Where, FromInUse.Bucket).ranges
       IN  IF UsableIndex(index)
           THEN Append(ExpectedScans(n - 1), [index |-> n, ranges |-> ranges])
           ELSE ExpectedScans(n - 1)

ScansOf(plans) ==
  [i \in 1..Len(plans) |-> [index |-> plans[i][1].index, ranges |-> plans[i][1].ranges]]

\* C7: a Select whose pool, bucket and indexes were found ends with exactly
\* one plan per usable index, in enumeration order, each starting with a scan
\* of that index: without ranges for a primary index, with the derived ranges
\* for a range index.
C7_OnePlanPerUsableIndex ==
  (PlanningOver /\ CatalogResolves) =>
     /\ \A i \in 1..Len(plansOut) : plansOut[i][1].op = "Scan"
     /\ ScansOf(plansOut) = ExpectedScans(Len(site.indexes))

StageRank(step) ==
  CASE step.op = "Filter" -> IF step.expr = "Where" THEN 1 ELSE 3
    [] step.op = "Group" -> 2
    [] step.op = "Projector" -> 4
    [] step.op = "EliminateDuplicates" -> 5
    [] step.op = "Order" -> 6
    [] step.op = "Offset" -> 7
    [] step.op = "Limit" -> 8
    [] step.op = "Explain" -> 9
    [] OTHER -> 0

StageSpecified(rank) ==
  CASE rank = 1 -> stmt.Where # NilWhere
    [] rank = 2 -> stmt.GroupBy
    [] rank = 3 -> stmt.Having
    [] rank = 4 -> TRUE
    [] rank = 5 -> stmt.Distinct
    [] rank = 6 -> stmt.OrderBy
    [] rank = 7 -> stmt.Offset # 0
    [] rank = 8 -> stmt.Limit >= 0
    [] rank = 9 -> stmt.ExplainOnly

StagesInOrder(plan) ==
  LET headLen == 2 + FromInUse.Over
  IN  /\ Len(plan) > headLen
      /\ \A i \in 1..headLen : StageRank(plan[i]) = 0
      /\ \A i \in (headLen + 1)..Len(plan) : StageRank(plan[i]) > 0
      /\ \A i \in (headLen + 1)..(Len(plan) - 1) :
            StageRank(plan[i]) < StageRank(plan[i + 1])
      /\ \A rank \in 1..9 :
            StageSpecified(rank) <=>
              (\E i \in (headLen + 1)..Len(plan) : StageRank(plan[i]) = rank)
      /\ \A i \in (headLen + 1)..Len(plan) :
            /\ plan[i].op = "Offset" => plan[i].n = stmt.Offset
            /\ plan[i].op = "Limit" => plan[i].n = stmt.Limit

\* C8: in every plan a Select emits, the stages above the plan head are in
\* the order Filter(Where), Group, Filter(Having), Projector,
\* EliminateDuplicates, Order, Offset, Limit, Explain, each there exactly when
\* the statement specifies it, the Projector always; Limit carries the
\* statement's limit whenever that is >= 0, 0 included.
C8_StagesInFixedOrder ==
  stmt.variant = "Select" =>
     \A i \in 1..Len(plansOut) : StagesInOrder(plansOut[i])

C8_Witness ==
  /\ stmt.variant = "Select"
  /\ Len(plansOut) = 2
  /\ stmt.Limit = 0 /\ stmt.Offset # 0 /\ stmt.Where # NilWhere
  /\ stmt.GroupBy /\ stmt.Having /\ stmt.Distinct /\ stmt.OrderBy /\ stmt.ExplainOnly
  /\ stmt.From # NilFrom /\ stmt.From.Over = 1
  /\ Len(plansOut[2]) = 12
  /\ plansOut[2][11] = Limit(0)

\* C9: with a caller that keeps receiving, planning never comes to a halt
\* before the goroutine is done and the caller has seen both channels closed.
C9_NeverStuckBeforeClosed ==
  \/ ENABLED PlanNext
  \/ (ppc = "done" /\ seenPcClosed /\ seenEcClosed)

\* C9, as a property of the fair behaviours.
C9_EventuallyBothSeenClosed == <>(ppc = "done" /\ seenPcClosed /\ seenEcClosed)

\* C10: a Select without a FROM clause is planned with the substitute
\* throughout: the goroutine never dereferences the absent From.
C10_AbsentFromNeverRead ==
  (stmt.variant = "Select" /\ stmt.From = NilFrom) =>
     (~panicking /\ ppc \notin {"unwound", "crashed"})

PlanLiveSpec ==
  PlanInit /\ [][PlanNext]_vars /\ WF_vars(PlannerStep) /\ WF_vars(CallerStep)

\* ------------------------------------------------------------------ C11
IsIndexStatement == stmt.variant \in {"CreateIndex", "DropIndex"}

\* The pool an index statement looks up.
IndexPoolLookedUp == IF stmt.Pool = "" THEN defaultPool ELSE stmt.Pool

\* C11: planning a CreateIndex or DropIndex statement ends with exactly one
\* plan and no error when both lookups succeed, the plan being the one
\* CreateIndex/DropIndex element, followed by Explain exactly when
\* ExplainOnly is set; with no plan and the one pool-not-found error naming
\* the planner's default pool when the pool lookup fails, whichever pool the
\* statement named; with no plan and the one bucket-not-found error naming
\* the statement's bucket when the bucket lookup fails.
C11_IndexStatementPlanning ==
  (PlanningOver /\ IsIndexStatement) =>
    IF IndexPoolLookedUp \notin site.pools
    THEN plansOut = <<>> /\ errsOut = <<PoolDoesNotExist(defaultPool)>>
    ELSE IF stmt.Bucket \notin site.buckets
    THEN plansOut = <<>> /\ errsOut = <<BucketDoesNotExist(stmt.Bucket)>>
    ELSE /\ errsOut = <<>>
         /\ plansOut =
              << IF stmt.ExplainOnly
                 THEN <<CreateOrDropIndex(stmt.variant, IndexPoolLookedUp, stmt.Bucket),
                        Explain>>
                 ELSE <<CreateOrDropIndex(stmt.variant, IndexPoolLookedUp, stmt.Bucket)>> >>

\* An index statement naming pool "p", which does not exist while the
\* default pool does, has ended with the error naming the default pool.
C11_Witness ==
  /\ ppc = "done" /\ IsIndexStatement
  /\ stmt.Pool = "p" /\ "p" \notin site.pools /\ defaultPool \in site.pools
  /\ errsOut = <<PoolDoesNotExist(defaultPool)>>
  /\ plansOut = <<>>

\* An index statement under ExplainOnly has ended with its one plan.
C11_WitnessPlan ==
  /\ ppc = "done" /\ IsIndexStatement /\ stmt.ExplainOnly
  /\ Len(plansOut) = 1 /\ errsOut = <<>>

\* ================================================= calls of the analysis
\* The scan ranges over keys 1..MaxKey.
ScanRangeValues ==
  {r \in [low : 1..MaxKey, high : 1..MaxKey] : r.low <= r.high}

\* The arguments of a call of MergeRanges.
MergeRangesArgs ==
  [origr : SeqsUpTo(ScanRangeValues, MaxRanges), newr : ScanRangeValues]

\* The ranges merged one after the other into an empty list, as the loop
\* over the operands of an AND does with the ranges of the sargable ones.
FoldArgs == [rs : SeqsUpTo(ScanRangeValues, MaxFold), j : {1}]

\* MergeRanges is called and returns.
Call_MergeRanges ==
  /\ fn = "MergeRanges" /\ ret = NotReturned
  /\ ret' = [ranges |-> MergeRanges(args.origr, args.newr)]
  /\ UNCHANGED <<fn, args>>
  /\ UNCHANGED <<ovars, pvars>>

\* rranges = MergeRanges(rranges, ran) for the next range.
Fold_MergeRanges ==
  /\ fn = "fold" /\ args.j <= Len(args.rs)
  /\ ret' = [ranges |-> MergeRanges(ret.ranges, args.rs[args.j])]
  /\ args' = [args EXCEPT !.j = @ + 1]
  /\ UNCHANGED fn
  /\ UNCHANGED <<ovars, pvars>>

\* ------------------------------------------- DoesIndexCoverStatement
\* An expression is given by the formally-notated paths it reads.
Expr(paths) == [paths |-> paths]

NilExpr == [nil |-> TRUE]

\* ast.ExpressionFunctionalDependencyCheckerFull over deps: Visit fails on
\* an expression that reads a path outside deps.
DepCheckerVisit(deps, expr) == [err |-> ~(expr.paths \subseteq deps)]

ResultExpr(star, expr) == [Star |-> star, Expr |-> expr]

\* The loop over stmt.Select from entry i on: FALSE when it returns false.
RECURSIVE CoverSelectLoop(_, _, _)
CoverSelectLoop(deps, select, i) ==
  IF i > Len(select) THEN TRUE
  ELSE IF select[i].Star = TRUE \/ select[i].Expr = NilExpr THEN FALSE
  ELSE IF DepCheckerVisit(deps, select[i].Expr).err THEN FALSE
  ELSE CoverSelectLoop(deps, select, i + 1)

\* A loop over a list of expressions from entry i on: FALSE when it returns
\* false.
RECURSIVE CoverExprLoop(_, _, _)
CoverExprLoop(deps, exprs, i) ==
  IF i > Len(exprs) THEN TRUE
  ELSE IF DepCheckerVisit(deps, exprs[i]).err THEN FALSE
  ELSE CoverExprLoop(deps, exprs, i + 1)

\* A list of expressions, and the nil list.
List(l) == [list |-> l]

NilList == [nil |-> TRUE]

Returns(b) == [returns |-> b]

Panics == [panics |-> TRUE]

RangeOver(s) == {s[i] : i \in 1..Len(s)}

DoesIndexCoverStatement(index, s) ==
  IF s.From = NilFrom THEN Panics
  ELSE IF s.From.Over # 0 THEN Returns(FALSE)
  ELSE LET indexKeyFormal == IndexKeyInFormalNotation(index.key, s.From.As)
           deps == RangeOver(indexKeyFormal.key)
       IN  IF indexKeyFormal.err THEN Returns(FALSE)
           ELSE IF ~CoverSelectLoop(deps, s.Select, 1) THEN Returns(FALSE)
           ELSE IF s.Where # NilExpr /\ DepCheckerVisit(deps, s.Where).err
                THEN Returns(FALSE)
           ELSE IF s.GroupBy # NilList /\ ~CoverExprLoop(deps, s.GroupBy.list, 1)
                THEN Returns(FALSE)
           ELSE IF s.GroupBy # NilList /\ s.Having # NilExpr
                   /\ DepCheckerVisit(deps, s.Having).err
                THEN Returns(FALSE)
           ELSE IF s.OrderBy # NilList /\ ~CoverExprLoop(deps, s.OrderBy.list, 1)
                THEN Returns(FALSE)
           ELSE Returns(TRUE)

\* The arguments of a call: an index on x, on x and y or with a key that
\* does not convert, and a statement over bucket b whose expressions read
\* b.x or b.z.
OnX == Expr({<<"b", "x">>})
OnZ == Expr({<<"b", "z">>})

CoverIndexes == {RangeIndex(<<"x">>), RangeIndex(<<"x", "y">>), RangeIndex(<<"bad">>)}

CoverFroms == {NilFrom} \cup {[As |-> "b", Over |-> o] : o \in 0..MaxOver}

ResultExprs ==
  {ResultExpr(TRUE, NilExpr), ResultExpr(FALSE, NilExpr),
   ResultExpr(FALSE, OnX), ResultExpr(FALSE, OnZ)}

ExprLists == {NilList} \cup {List(l) : l \in SeqsUpTo({OnX, OnZ}, MaxExprs) \ {<<>>}}

CoverStatements ==
  [From : CoverFroms, Select : SeqsUpTo(ResultExprs, MaxExprs) \ {<<>>},
   Where : {NilExpr, OnX, OnZ}, GroupBy : ExprLists, Having : {NilExpr, OnX, OnZ},
   OrderBy : ExprLists]

DoesIndexCoverStatementArgs == [index : CoverIndexes, stmt : CoverStatements]

\* DoesIndexCoverStatement is called and returns or panics.
Call_DoesIndexCoverStatement ==
  /\ fn = "DoesIndexCoverStatement" /\ ret = NotReturned
  /\ ret' = DoesIndexCoverStatement(args.index, args.stmt)
  /\ UNCHANGED <<fn, args>>
  /\ UNCHANGED <<ovars, pvars>>

\* ------------------------------------------------------------- the parser
\* A query text is given by its clauses in order; LIMIT carries 10 and
\* OFFSET 20, as in the parser's tests.
ClauseTokens == {"SELECT", "FROM", "WHERE", "ORDER BY", "LIMIT", "OFFSET"}

Queries == SeqsUpTo(ClauseTokens, MaxClauses)

ParseError == "error"

\* The grammar of a Select with the clause as the last one read accepting a
\* next clause even when that is OFFSET after something else than LIMIT.
Grammar_OffsetWithoutLimit(last, tok) ==
  CASE last = "start"    -> IF tok = "SELECT" THEN tok ELSE ParseError
    [] last = "SELECT"   -> IF tok = "FROM" THEN tok ELSE ParseError
    [] last = "FROM"     -> IF tok \in {"WHERE", "ORDER BY", "LIMIT", "OFFSET"} THEN tok
                            ELSE ParseError
    [] last = "WHERE"    -> IF tok \in {"ORDER BY", "LIMIT", "OFFSET"} THEN tok
                            ELSE ParseError
    [] last = "ORDER BY" -> IF tok \in {"LIMIT", "OFFSET"} THEN tok ELSE ParseError
    [] last = "LIMIT"    -> IF tok = "OFFSET" THEN tok ELSE ParseError
    [] OTHER             -> ParseError

\* SELECT <result-list> [FROM <bucket> [WHERE <expr>] [ORDER BY <sort-list>]
\* [LIMIT <int> [OFFSET <int>]]]: the clause that may follow the last one.
Grammar(last, tok) ==
  CASE last = "start"    -> IF tok = "SELECT" THEN tok ELSE ParseError
    [] last = "SELECT"   -> IF tok = "FROM" THEN tok ELSE ParseError
    [] last = "FROM"     -> IF tok \in {"WHERE", "ORDER BY", "LIMIT"} THEN tok
                            ELSE ParseError
    [] last = "WHERE"    -> IF tok \in {"ORDER BY", "LIMIT"} THEN tok ELSE ParseError
    [] last = "ORDER BY" -> IF tok = "LIMIT" THEN tok ELSE ParseError
    [] last = "LIMIT"    -> IF tok = "OFFSET" THEN tok ELSE ParseError
    [] OTHER             -> ParseError

\* The statement a parse starts from: no limit, no offset.
NewSelectStatement ==
  [From |-> FALSE, Where |-> FALSE, OrderBy |-> FALSE, Limit |-> -1, Offset |-> 0]

\* The statement after one more clause.
Reduce(s, tok) ==
  CASE tok = "FROM"     -> [s EXCEPT !.From = TRUE]
    [] tok = "WHERE"    -> [s EXCEPT !.Where = TRUE]
    [] tok = "ORDER BY" -> [s EXCEPT !.OrderBy = TRUE]
    [] tok = "LIMIT"    -> [s EXCEPT !.Limit = 10]
    [] tok = "OFFSET"   -> [s EXCEPT !.Offset = 20]
    [] OTHER            -> s

NoStatement == [nil |-> TRUE]

RECURSIVE ParseLoop(_, _, _, _)
ParseLoop(text, i, last, s) ==
  IF i > Len(text)
  THEN IF last = "start" THEN [err |-> TRUE, stmt |-> NoStatement]
       ELSE [err |-> FALSE, stmt |-> s]
  ELSE LET next == Grammar(last, text[i])
       IN  IF next = ParseError THEN [err |-> TRUE, stmt |-> NoStatement]
           ELSE ParseLoop(text, i + 1, next, Reduce(s, text[i]))

\* UnqlParser.Parse: the statement, or an error and no statement.
Parse(text) == ParseLoop(text, 1, "start", NewSelectStatement)

\* Parse is called and returns.
Call_Parse ==
  /\ fn = "Parse" /\ ret = NotReturned
  /\ ret' = Parse(args.text)
  /\ UNCHANGED <<fn, args>>
  /\ UNCHANGED <<ovars, pvars>>

\* ------------------------------- CanIUseThisIndexForThisWhereClause
\* The operands of the where clauses of a call: comparisons of b.x with every
\* range, one comparison of b.y, one expression that compares no key.
WhereOperands ==
  {Cmp("x", r.low, r.high) : r \in ScanRangeValues} \cup {Cmp("y", 1, 1), Opaque}

\* What NNF and CNF conversion give: an error, one operand, or an AND of two
\* or more.
WhereClauses ==
  {Where("nnfErr", Opaque), Where("cnfErr", Opaque)}
  \cup {Where("ok", e) : e \in WhereOperands}
  \cup {Where("ok", And(l)) : l \in {m \in SeqsUpTo(WhereOperands, MaxFold) : Len(m) >= 2}}

CanIUseArgs ==
  [index : {RangeIndex(<<"x">>), RangeIndex(<<"y", "x">>), RangeIndex(<<"bad">>)},
   where : WhereClauses, bucket : {"b"}]

\* CanIUseThisIndexForThisWhereClause is called and returns.
Call_CanIUseThisIndexForThisWhereClause ==
  /\ fn = "CanIUseThisIndexForThisWhereClause" /\ ret = NotReturned
  /\ ret' = CanIUseThisIndexForThisWhereClause(args.index, args.where, args.bucket)
  /\ UNCHANGED <<fn, args>>
  /\ UNCHANGED <<ovars, pvars>>

AnalysisInit ==
  /\ \/ fn = "MergeRanges" /\ args \in MergeRangesArgs /\ ret = NotReturned
     \/ fn = "fold" /\ args \in FoldArgs /\ ret = [ranges |-> <<>>]
     \/ /\ fn = "DoesIndexCoverStatement" /\ args \in DoesIndexCoverStatementArgs
        /\ ret = NotReturned
     \/ /\ fn = "CanIUseThisIndexForThisWhereClause" /\ args \in CanIUseArgs
        /\ ret = NotReturned
     \/ fn = "Parse" /\ args \in [text : Queries] /\ ret = NotReturned
  /\ OffsetAtRest
  /\ PlannerAtRest

AnalysisNext ==
  \/ Call_MergeRanges
  \/ Fold_MergeRanges
  \/ Call_DoesIndexCoverStatement
  \/ Call_CanIUseThisIndexForThisWhereClause
  \/ Call_Parse

AnalysisSpec == AnalysisInit /\ [][AnalysisNext]_vars

\* ------------------------------------------------------------------ C12
Overlaps(a, b) == Overlap(a, b) # NoOverlap

\* The entries of a list that overlap a range.
OverlappingEntries(l, r) == {i \in 1..Len(l) : Overlaps(l[i], r)}

\* The range spanning two ranges.
Span(a, b) == [low  |-> IF a.low <= b.low THEN a.low ELSE b.low,
               high |-> IF a.high >= b.high THEN a.high ELSE b.high]

\* What C12 says MergeRanges(existing, new) returns.
MergedFirstFitOrAppended(existing, new, result) ==
  LET hits == OverlappingEntries(existing, new)
  IN  IF hits # {}
      THEN LET first == CHOOSE i \in hits : \A k \in hits : i <= k
           IN  /\ Len(result) = Len(existing)
               /\ result[first] = Span(existing[first], new)
               /\ \A i \in 1..Len(existing) : i # first => result[i] = existing[i]
      ELSE result = Append(existing, new)

\* C12: a call MergeRanges(existing, new) leaves existing as it was and
\* returns, when some range of existing overlaps new, a list as long as
\* existing in which the first overlapping range is replaced in place by the
\* range spanning it and new and every other entry is unchanged in its
\* position; when none overlaps, existing followed by new.
C12_MergeRangesFirstFit ==
  [][Call_MergeRanges =>
       /\ args' = args
       /\ MergedFirstFitOrAppended(args.origr, args.newr, ret'.ranges)]_vars

\* MergeRanges has returned for a list with two ranges that both overlap the
\* new one: the first was replaced, the second kept.
C12_Witness ==
  /\ fn = "MergeRanges" /\ ret # NotReturned
  /\ Len(args.origr) = 2
  /\ OverlappingEntries(args.origr, args.newr) = {1, 2}
  /\ ret.ranges[1] # args.origr[1]
  /\ ret.ranges[2] = args.origr[2]

\* MergeRanges has returned for a list no range of which overlaps the new one.
C12_WitnessAppend ==
  /\ fn = "MergeRanges" /\ ret # NotReturned
  /\ Len(args.origr) = 2
  /\ OverlappingEntries(args.origr, args.newr) = {}
  /\ Len(ret.ranges) = 3

\* ------------------------------------------------------------------ C15
\* C15: after any sequence of MergeRanges calls starting from the empty
\* list, no two ranges of the list overlap each other.
C15_FoldedRangesDisjoint ==
  fn = "fold" =>
    \A i, k \in 1..Len(ret.ranges) : i # k => ~Overlaps(ret.ranges[i], ret.ranges[k])

\* ------------------------------------------------------------------ C13
\* The paths the key of an index determines for a statement over alias as;
\* none when the key does not convert.
KeyPaths(index, as) ==
  IF \E i \in 1..Len(index.key) : FormalNotation(index.key[i], as).err THEN {}
  ELSE {FormalNotation(index.key[i], as).expr : i \in 1..Len(index.key)}

KeyConverts(index, as) ==
  \A i \in 1..Len(index.key) : ~FormalNotation(index.key[i], as).err

\* Every expression location of a statement: each projection entry, WHERE,
\* each GROUP BY term, HAVING, each ORDER BY term.
ExpressionLocations(s) ==
  {s.Select[i].Expr : i \in 1..Len(s.Select)}
  \cup (IF s.Where = NilExpr THEN {} ELSE {s.Where})
  \cup (IF s.GroupBy = NilList THEN {} ELSE RangeOver(s.GroupBy.list))
  \cup (IF s.Having = NilExpr THEN {} ELSE {s.Having})
  \cup (IF s.OrderBy = NilList THEN {} ELSE RangeOver(s.OrderBy.list))

HasWildcardOrEmptyProjection(s) ==
  \E i \in 1..Len(s.Select) : s.Select[i].Star \/ s.Select[i].Expr = NilExpr

\* What C13 says DoesIndexCoverStatement returns for a statement with a From.
CoversAsStated(index, s) ==
  IF s.From.Over # 0 \/ HasWildcardOrEmptyProjection(s) THEN FALSE
  ELSE /\ KeyConverts(index, s.From.As)
       /\ \A e \in ExpressionLocations(s) : e.paths \subseteq KeyPaths(index, s.From.As)

\* C13: DoesIndexCoverStatement returns false for a statement with a nested
\* Over level or with a projection entry that is a wildcard or has no
\* expression, and otherwise returns true exactly when every projection
\* entry, WHERE, every GROUP BY term, HAVING (with or without GROUP BY) and
\* every ORDER BY term is determined by the key components of the index.
C13_CoversExactlyWhenAllLocationsPass ==
  (fn = "DoesIndexCoverStatement" /\ ret # NotReturned /\ args.stmt.From # NilFrom) =>
    ret = Returns(CoversAsStated(args.index, args.stmt))

\* The same with a statement that has HAVING only together with GROUP BY.
C13_HoldsWithGroupBy ==
  (fn = "DoesIndexCoverStatement" /\ ret # NotReturned /\ args.stmt.From # NilFrom
   /\ (args.stmt.Having # NilExpr => args.stmt.GroupBy # NilList)) =>
    ret = Returns(CoversAsStated(args.index, args.stmt))

\* ------------------------------------------------------------------ C14
\* A text has an OFFSET clause that no LIMIT clause precedes.
OffsetNotPrecededByLimit(text) ==
  \E i \in 1..Len(text) :
    text[i] = "OFFSET" /\ (i = 1 \/ text[i - 1] # "LIMIT")

\* SELECT ... FROM ... WHERE ..., with or without ORDER BY, then LIMIT and
\* OFFSET.
LimitThenOffsetQueries ==
  {<<"SELECT", "FROM", "WHERE", "ORDER BY", "LIMIT", "OFFSET">>,
   <<"SELECT", "FROM", "WHERE", "LIMIT", "OFFSET">>}

\* The clause forms of the queries of the parser's test lists.
validQueries ==
  {<<"SELECT">>,
   <<"SELECT", "FROM", "WHERE", "ORDER BY", "LIMIT", "OFFSET">>,
   <<"SELECT", "FROM", "WHERE", "LIMIT", "OFFSET">>,
   <<"SELECT", "FROM", "WHERE", "LIMIT">>,
   <<"SELECT", "FROM", "WHERE">>,
   <<"SELECT", "FROM">>}

invalidQueries == {<<"SELECT", "FROM", "WHERE", "ORDER BY", "OFFSET">>}

\* TestParser passes: Parse accepts the valid queries and rejects the
\* invalid ones.
TestParser ==
  (fn = "Parse" /\ ret # NotReturned) =>
    /\ args.text \in validQueries => ~ret.err
    /\ args.text \in invalidQueries => ret.err

\* C14: Parse returns an error for a text whose OFFSET clause is not
\* preceded by a LIMIT clause, and no error, with limit and offset set, for
\* SELECT ... LIMIT 10 OFFSET 20 with or without ORDER BY.
C14_OffsetRequiresLimit ==
  (fn = "Parse" /\ ret # NotReturned) =>
    /\ OffsetNotPrecededByLimit(args.text) => ret.err /\ ret.stmt = NoStatement
    /\ args.text \in LimitThenOffsetQueries =>
         ~ret.err /\ ret.stmt.Limit = 10 /\ ret.stmt.Offset = 20

\* Parse has rejected SELECT ... ORDER BY x OFFSET 20.
C14_Witness ==
  /\ fn = "Parse" /\ ret # NotReturned
  /\ args.text = <<"SELECT", "FROM", "WHERE", "ORDER BY", "OFFSET">>
  /\ ret.err

\* Parse has accepted SELECT ... ORDER BY x LIMIT 10 OFFSET 20.
C14_WitnessAccepted ==
  /\ fn = "Parse" /\ ret # NotReturned
  /\ args.text = <<"SELECT", "FROM", "WHERE", "ORDER BY", "LIMIT", "OFFSET">>
  /\ ~ret.err

\* ------------------------------------------------------------------ C16
\* The first key component of the index of a call, in formal notation.
FirstKeyComponent == FormalNotation(args.index.key[1], args.bucket).expr

\* The operands of a conjunction that are sargable against the key, in order.
SargableConjuncts(operands) ==
  SelectSeq(operands, LAMBDA e : IsSargable(FirstKeyComponent, e))

\* The ranges of a list of sargable conjuncts folded with MergeRanges, from
\* the last conjunct back to the empty list.
RECURSIVE FoldOfRanges(_)
FoldOfRanges(conjuncts) ==
  IF conjuncts = <<>> THEN <<>>
  ELSE LET n == Len(conjuncts)
       IN  MergeAll(FoldOfRanges(SubSeq(conjuncts, 1, n - 1)), ScanRanges(conjuncts[n]), 1)

\* C16: when CNF conversion gives a top-level conjunction, the index is
\* reported usable exactly when some conjunct is sargable against the first
\* key component, with the MergeRanges fold, in conjunct order, of the ranges
\* of exactly the sargable conjuncts; when it gives something else, exactly
\* when the whole expression is sargable, with that expression's ranges; an
\* index reported not usable comes with no ranges.
C16_UsableWhenSomeConjunctSargable ==
  (fn = "CanIUseThisIndexForThisWhereClause" /\ ret # NotReturned /\ ~ret.err) =>
    LET cnf == args.where.cnf
    IN  /\ cnf.op = "and" =>
             /\ ret.possible = (SargableConjuncts(cnf.operands) # <<>>)
             /\ ret.possible => ret.ranges = FoldOfRanges(SargableConjuncts(cnf.operands))
        /\ cnf.op # "and" =>
             /\ ret.possible = IsSargable(FirstKeyComponent, cnf)
             /\ ret.possible => ret.ranges = ScanRanges(cnf)
        /\ ~ret.possible => ret.ranges = <<>>

\* The call has returned for a conjunction of a sargable conjunct, one
\* that is not, and a second sargable one that does not overlap the first:
\* usable, with the two ranges.
C16_Witness ==
  /\ fn = "CanIUseThisIndexForThisWhereClause" /\ ret # NotReturned /\ ~ret.err
  /\ args.where.cnf.op = "and"
  /\ Len(args.where.cnf.operands) = 3
  /\ Len(SargableConjuncts(args.where.cnf.operands)) = 2
  /\ ~IsSargable(FirstKeyComponent, args.where.cnf.operands[2])
  /\ ret.possible /\ Len(ret.ranges) = 2

\* The call has returned not usable for a conjunction with no sargable
\* conjunct.
C16_WitnessUnusable ==
  /\ fn = "CanIUseThisIndexForThisWhereClause" /\ ret # NotReturned /\ ~ret.err
  /\ args.where.cnf.op = "and"
  /\ ~ret.possible

\* ------------------------------------------------------------------ C17
\* The usability check of some range index of the bucket fails with an
\* error: its key or the where clause does not convert.
UsabilityCheckFails ==
  /\ CatalogResolves
  /\ stmt.From # NilFrom
  /\ stmt.Where # NilWhere
  /\ \E i \in 1..Len(site.indexes) :
       site.indexes[i].type = "range" /\ ~Convertible(site.indexes[i], stmt.Where)

\* C17: when the usability check of a range index has failed with an error,
\* planning a Select ends with an error on the error channel.
C17_UsabilityFailureSurfaced ==
  (ppc = "done" /\ UsabilityCheckFails) => errsOut # <<>>

\* ------------------------------------------------------------------ C18
\* A send of Run on one of its own channels is pending.
SendPending == opc \in {"sendItem", "sendSupport"}

\* The items received from the source and dropped.
Dropped == IF srcPos <= offset THEN srcPos ELSE offset

\* The messages received from the source and neither forwarded nor dropped.
InHand ==
  (srcPos - Dropped - Len(outItems)) + (srcSupSent - Len(outSupport))

\* C18: while a send of Run is pending, nothing is received from the source;
\* at most one message received from the source is neither forwarded nor
\* dropped; as long as the downstream has received nothing, at most
\* offset + 1 items have been taken from the source.
C18_Backpressure ==
  /\ [](InHand \in {0, 1})
  /\ []((outItems = <<>> /\ outSupport = <<>>) => srcPos <= offset + 1)
  /\ [][SendPending => (srcPos' = srcPos /\ srcSupSent' = srcSupSent)]_vars

\* Run has dropped offset items, holds the next one with its send pending
\* and untaken, and the source is blocked at the send of a further item.
C18_Witness ==
  /\ opc = "sendItem" /\ outItems = <<>>
  /\ offset > 0 /\ srcPos = offset + 1
  /\ srcTry = "item"
  /\ InHand = 1

\* ------------------------------------------------------------------ C19
\* The receive loop of Run has ended.
LoopOver == opc \in {"closeSupport", "closeItem", "done"}

\* C19: at its select with one of the source's channels closed, Run can end
\* its loop whether or not the other channel is closed, and leaves the select
\* for its return only so; once the loop has ended nothing more is received
\* from the source or forwarded; a Run that ended without an Error has
\* forwarded what it received up to then and nothing of what the source had
\* not yet sent.
C19_LoopEndsAtFirstClosedChannel ==
  /\ [](opc = "select" /\ ~srcSupportOpen => ENABLED Run_RecvSupportClosed)
  /\ [](opc = "select" /\ ~srcItemOpen => ENABLED Run_RecvItemClosed)
  /\ [][(opc = "select" /\ opc' = "closeSupport") =>
          (~srcItemOpen \/ ~srcSupportOpen)]_vars
  /\ [][LoopOver => (srcPos' = srcPos /\ srcSupSent' = srcSupSent
                      /\ outItems' = outItems /\ outSupport' = outSupport)]_vars
  /\ []((opc = "done" /\ errGot = Nil) =>
          outItems = SubSeq(srcItems, offset + 1, srcPos))

\* Run has returned without an Error on finding the support channel closed
\* while the item channel is open and the source is at the send of an item,
\* with further items to send: they are lost.
C19_Witness ==
  /\ opc = "done" /\ errGot = Nil
  /\ ~srcSupportOpen /\ srcItemOpen
  /\ srcTry = "item"
  /\ srcPos < Len(srcItems)
  /\ Len(outItems) < Len(srcItems) - offset

\* ------------------------------------------------------------------ C20
\* The source is at a send that has not been taken.
SourceBlocked == srcTry \in {"item", "support"}

\* Some step of the source, or a receive of Run from it, can happen.
SourceCanMove ==
  \/ ENABLED Source_OfferItem
  \/ ENABLED Source_OfferSupport
  \/ ENABLED Source_CloseItem
  \/ ENABLED Source_CloseSupport
  \/ ENABLED Run_RecvItem
  \/ ENABLED Run_RecvSupport

\* C20: once Run has received an Error from its source, it receives from
\* neither source channel again; a source that is then at a further send
\* stays at it for ever: nothing takes the message and the source can take
\* no other step.
C20_SourceAbandonedAfterError ==
  /\ [][errGot # Nil => (srcPos' = srcPos /\ srcSupSent' = srcSupSent)]_vars
  /\ [][(errGot # Nil /\ SourceBlocked) => (srcTry' = srcTry /\ srcMsg' = srcMsg)]_vars
  /\ []((errGot # Nil /\ SourceBlocked) => ~SourceCanMove)

\* Run has returned after an Error and the source is at the send of its
\* next item.
C20_Witness ==
  /\ opc = "done" /\ errGot # Nil
  /\ srcTry = "item" /\ srcPos < Len(srcItems)
  /\ itemCloses = 1 /\ supportCloses = 1

\* ------------------------------------------------------------------ C21
\* The outcome of a Plan call that is over is one of the three C21 names.
OutcomeAsStated ==
  \/ Len(errsOut) = 1 /\ plansOut = <<>>
  \/ Len(plansOut) >= 1 /\ errsOut = <<>>
  \/ stmt.variant = "Other" /\ plansOut = <<>> /\ errsOut = <<>>

\* C21: for one call of Plan the error channel carries at most one error,
\* plans and errors never both occur, and once planning is over the outcome
\* is exactly one error and no plan, or one or more plans and no error, or,
\* for an unrecognized statement variant only, no plan and no error.
C21_OutcomeExclusive ==
  /\ Len(errsOut) <= 1
  /\ ~(plansOut # <<>> /\ errsOut # <<>>)
  /\ PlanningOver => OutcomeAsStated

\* The same for the calls whose goroutine returns.
C21_HoldsWhenReturned ==
  /\ Len(errsOut) <= 1
  /\ ~(plansOut # <<>> /\ errsOut # <<>>)
  /\ ppc = "done" => OutcomeAsStated

\* ------------------------------------------------------------------ C22
\* The scan of a Select plan is restricted to ranges.
RangeRestricted(plan) == plan[1].op = "Scan" /\ plan[1].ranges # <<>>

\* A plan has the filter on the statement's where clause, above its scan,
\* its fetch and every document join.
RefilteredAboveJoins(plan) ==
  \E i \in 1..Len(plan) :
    /\ plan[i] = Filter("Where")
    /\ \A k \in 1..Len(plan) :
         plan[k].op \in {"Scan", "Fetch", "DocumentJoin"} => k < i

\* C22: every Select plan, emitted or at its send, whose scan carries scan
\* ranges comes from a statement with a where clause and has the filter on
\* that where clause above its fetch and document joins, whichever
\* conjuncts gave the ranges.
C22_RangeScansRefiltered ==
  stmt.variant = "Select" =>
    /\ \A i \in 1..Len(plansOut) :
         RangeRestricted(plansOut[i]) =>
           (stmt.Where # NilWhere /\ RefilteredAboveJoins(plansOut[i]))
    /\ (ppc = "sendPlan" /\ RangeRestricted(sending.plan)) =>
         (stmt.Where # NilWhere /\ RefilteredAboveJoins(sending.plan))

\* A plan was emitted whose scan has the ranges of one conjunct of a
\* conjunction with a conjunct on another key, over a From with a join level,
\* and the filter is in it.
C22_Witness ==
  /\ ppc = "done" /\ stmt.variant = "Select"
  /\ stmt.Where # NilWhere /\ stmt.Where.cnf.op = "and"
  /\ stmt.From # NilFrom /\ stmt.From.Over = 1
  /\ \E i \in 1..Len(plansOut) :
       /\ RangeRestricted(plansOut[i])
       /\ Len(plansOut[i][1].ranges) = 1
       /\ plansOut[i][3].op = "DocumentJoin"
       /\ plansOut[i][4] = Filter("Where")

=============================================================================
